---- MODULE Spec2Model ----
(***************************************************************************)
(* Model of src/index.js: the /ask route of the AI agent server, its       *)
(* question validator, role classifier, lazily built in-memory vector      *)
(* store and similarity search.                                            *)
(*                                                                         *)
(* Text is a sequence of tokens (words, "_" and whitespace tokens), so     *)
(* that trim(), toLowerCase() and replace('_', ' ') are modelled by what   *)
(* they do.  An optional value is a sequence of length 0 or 1.             *)
(* Every await of a collaborator call is a point where the handlers of     *)
(* other requests may run; the code between two of them is one action.     *)
(***************************************************************************)
EXTENDS Integers, Sequences, FiniteSets, TLC

(* ---------------- bounds of the model ---------------- *)
NumReq == 2
MaxFsChanges == 1
MaxStore == 3
MaxTopK == 3

Requests == 1..NumReq

(* ---------------- small helpers ---------------- *)
None == <<>>
Some(x) == <<x>>

Min(a, b) == IF a < b THEN a ELSE b

Range(s) == {s[i] : i \in 1..Len(s)}

(* ---------------- Config (src/index.js 17-24) ---------------- *)
KNOWLEDGE_FILES == <<"knowledge.txt", "faq.txt">>

FileNames == Range(KNOWLEDGE_FILES)

(* ---------------- String operations ---------------- *)
Whitespace == {" ", "\n", "\t"}

RECURSIVE TrimStart(_)
TrimStart(s) ==
  IF s # <<>> /\ Head(s) \in Whitespace THEN TrimStart(Tail(s)) ELSE s

RECURSIVE TrimEnd(_)
TrimEnd(s) ==
  IF s # <<>> /\ s[Len(s)] \in Whitespace
  THEN TrimEnd(SubSeq(s, 1, Len(s) - 1)) ELSE s

Trim(s) == TrimEnd(TrimStart(s))

LowerTable ==
  [t \in {"Valid", "VALID", "Technical", "Expert", "Sales", "Agent"} |->
     CASE t = "Valid" -> "valid"
       [] t = "VALID" -> "valid"
       [] t = "Technical" -> "technical"
       [] t = "Expert" -> "expert"
       [] t = "Sales" -> "sales"
       [] t = "Agent" -> "agent"]

ToLowerCase(s) ==
  [i \in 1..Len(s) |-> IF s[i] \in DOMAIN LowerTable THEN LowerTable[s[i]] ELSE s[i]]

(* String.prototype.replace with a string pattern: the first occurrence only *)
RECURSIVE Replace(_, _, _)
Replace(s, pat, by) ==
  IF s = <<>> THEN <<>>
  ELSE IF Head(s) = pat THEN <<by>> \o Tail(s)
  ELSE <<Head(s)>> \o Replace(Tail(s), pat, by)

(* ---------------- Cosine Similarity (src/index.js 32-38) ---------------- *)
RECURSIVE Dot(_, _)
Dot(a, b) == IF a = <<>> THEN 0 ELSE Head(a) * Head(b) + Dot(Tail(a), Tail(b))

(* Math.sqrt on the perfect squares the embedding vectors of the model give *)
Sqrt(n) == CHOOSE k \in 0..n : k * k = n

(* mutant: no length check *)
LengthsDiffer_Never(vecA, vecB) == FALSE

LengthsDiffer(vecA, vecB) == Len(vecA) # Len(vecB)

(* the score dot / (magA * magB), kept as the exact fraction num/den *)
cosineSimilarity(vecA, vecB) ==
  [num |-> Dot(vecA, vecB),
   den |-> Sqrt(Dot(vecA, vecA)) * Sqrt(Dot(vecB, vecB))]

ScoreLess(s, t) == s.num * t.den < t.num * s.den

ScoreEq(s, t) == s.num * t.den = t.num * s.den

(* ---------------- Role Classification (src/index.js 42-97) ---------------- *)
customer_support == <<"customer", "_", "support">>
sales_agent == <<"sales", "_", "agent">>
marketing_agent == <<"marketing", "_", "agent">>
technical_expert == <<"technical", "_", "expert">>
general_info == <<"general", "_", "info">>

agentPrompts == {customer_support, sales_agent, marketing_agent, technical_expert, general_info}

(* mutant: the label is not lowercased *)
classifyRole_NoLowerCase(text) ==
  LET label == Trim(text)
  IN  IF label \in agentPrompts THEN label ELSE general_info

classifyRole(text) ==
  LET label == ToLowerCase(Trim(text))
  IN  IF label \in agentPrompts THEN label ELSE general_info

(* ---------------- Question Validation (src/index.js 134-138) ---------------- *)
(* mutant: fail-open, anything but needs_more_context counts as valid *)
validateQuestion_FailOpen(text) ==
  LET label == ToLowerCase(Trim(text))
  IN  label # <<"needs_more_context">>

validateQuestion(text) ==
  LET label == ToLowerCase(Trim(text))
  IN  label = <<"valid">>

(* ---------------- Embedding provider, text splitter, file system ---------------- *)
(* embeddings.embedQuery: the provider is a function of the text.  Vectors are    *)
(* non-zero and of integer magnitude; <<1>> has another dimensionality (what a     *)
(* provider/config mismatch gives).                                                *)
Vectors == {<<1, 0>>, <<0, 1>>, <<3, 4>>, <<1>>}

(* the embedding of a paragraph of a knowledge file *)
embedQuery(text) ==
  CASE text = "p1" -> <<1, 0>>
    [] text = "p2" -> <<3, 4>>
    [] OTHER -> <<0, 1>>

(* the embedding of a query: the query text is arbitrary, so is its vector *)
QueryVectors == {<<1, 0>>, <<0, 1>>, <<1>>}

(* fs.existsSync / fs.readFileSync: a file is missing (None) or holds a text *)
FileTexts == {<<"\n">>, <<"p1", "\n", "p2", "\n">>}

FileStates == {None} \cup {Some(t) : t \in FileTexts}

(* RecursiveCharacterTextSplitter.createDocuments: one document per paragraph *)
RECURSIVE createDocuments(_)
createDocuments(text) ==
  IF text = <<>> THEN <<>>
  ELSE IF Head(text) \in Whitespace THEN createDocuments(Tail(text))
  ELSE <<Head(text)>> \o createDocuments(Tail(text))

(* ---------------- findRelevantChunks (src/index.js 169-187) ---------------- *)
DefaultTopK == 3
DefaultThreshold == [num |-> 3, den |-> 10]

(* cosineSimilarity throws for some item of the store *)
ScoringThrows(store, queryEmbedding) ==
  \E i \in 1..Len(store) : LengthsDiffer(queryEmbedding, store[i].embedding)

Scored(store, queryEmbedding) ==
  [i \in 1..Len(store) |->
     [embedding |-> store[i].embedding,
      text |-> store[i].text,
      fileName |-> store[i].fileName,
      score |-> cosineSimilarity(queryEmbedding, store[i].embedding)]]

(* Array.prototype.sort with (a, b) => b.score - a.score: stable, descending *)
(* mutant: an unstable sort, equal scores come out in reverse order *)
RECURSIVE InsertSorted_BeforeEqual(_, _)
InsertSorted_BeforeEqual(sorted, x) ==
  IF sorted = <<>> THEN <<x>>
  ELSE IF ~ScoreLess(x.score, Head(sorted).score) THEN <<x>> \o sorted
  ELSE <<Head(sorted)>> \o InsertSorted_BeforeEqual(Tail(sorted), x)

RECURSIVE InsertSorted(_, _)
InsertSorted(sorted, x) ==
  IF sorted = <<>> THEN <<x>>
  ELSE IF ScoreLess(Head(sorted).score, x.score) THEN <<x>> \o sorted
  ELSE <<Head(sorted)>> \o InsertSorted(Tail(sorted), x)

RECURSIVE SortByScore(_)
SortByScore(scored) ==
  IF scored = <<>> THEN <<>>
  ELSE InsertSorted(SortByScore(SubSeq(scored, 1, Len(scored) - 1)), scored[Len(scored)])

Slice(s, topK) == SubSeq(s, 1, Min(topK, Len(s)))

(* mutant: the store itself is sorted by score *)
StoreAfterSearch_SortInPlace(store, queryEmbedding) ==
  LET sorted == SortByScore(Scored(store, queryEmbedding))
  IN  [i \in 1..Len(sorted) |->
         [embedding |-> sorted[i].embedding, text |-> sorted[i].text,
          fileName |-> sorted[i].fileName]]

(* what scoring and sorting leave in the store: map builds a new array and   *)
(* sort works on that array, so the store is as it was                        *)
StoreAfterSearch(store, queryEmbedding) == store

(* mutant: no confidence gate *)
findRelevantChunks_NoGate(store, queryEmbedding, topK, threshold) ==
  Slice(SortByScore(Scored(store, queryEmbedding)), topK)

(* mutant: a top score equal to threshold is rejected too *)
findRelevantChunks_GateLeq(store, queryEmbedding, topK, threshold) ==
  LET sorted == SortByScore(Scored(store, queryEmbedding))
      topResults == Slice(sorted, topK)
  IN  IF topResults # <<>> /\ ~ScoreLess(threshold, topResults[1].score)
      THEN <<>>
      ELSE topResults

findRelevantChunks(store, queryEmbedding, topK, threshold) ==
  LET sorted == SortByScore(Scored(store, queryEmbedding))
      topResults == Slice(sorted, topK)
  IN  IF topResults # <<>> /\ ScoreLess(topResults[1].score, threshold)
      THEN <<>>
      ELSE topResults

(* ---------------- Collaborator outputs ---------------- *)
(* raw text of the validation model *)
ValidatorOutputs ==
  {<<" ", "Valid", "\n">>, <<"needs_more_context">>, <<"valid", " ", "question">>}

(* raw text of the classifier model *)
ClassifierOutputs ==
  {customer_support, sales_agent, marketing_agent,
   <<" ", "Technical", "_", "Expert", " ", "\n">>, <<"billing", "_", "agent">>}

(* data.message.content of a chat completion *)
ChatContents == {<<"grounded answer">>}

(* request bodies: no query member, an empty query, a query *)
Bodies == {None, Some(<<>>), Some(<<"q">>)}

(* ---------------- Responses ---------------- *)
MissingQuery == [status |-> 400, body |-> <<"Missing query.">>]
Clarification == [status |-> 200, body |-> <<"Could you provide more details about your question?">>]
(* mutant: the underscore is left in the forwarding message *)
Forward_NoReplace(role) == [status |-> 200, body |-> <<"will forward this to our ">> \o role]

Forward(role) == [status |-> 200, body |-> <<"will forward this to our ">> \o Replace(role, "_", " ")]
NoContent == <<"No content returned.">>
Answer(content) == [status |-> 200, body |-> IF content # <<>> THEN content ELSE NoContent]
Failure == [status |-> 500, body |-> <<"An error occurred.">>]
(* what Express' own error handler sends when it is handed a rejected handler *)
FrameworkError == [status |-> 500, body |-> <<"Internal Server Error">>]

(* ---------------- State ---------------- *)
VARIABLES
  vectorStore,  \* let vectorStore = []  (src/index.js 142)
  fs,           \* the knowledge files on disk: file name -> None or Some(text)
  fsChanges,    \* number of changes made to the files since the start
  req,          \* per request: position of its handler, its locals, its response
  alive,        \* the node process is running
  fn            \* a single call of one function on given arguments (FnSpec)

vars == <<vectorStore, fs, fsChanges, req, alive, fn>>

NoCall == [op |-> "none"]

NoCalls == [validate |-> 0, classify |-> 0, embed |-> 0, chat |-> 0]

NewRequest ==
  [pc |-> "idle", query |-> None, vout |-> None, cout |-> None, role |-> <<>>,
   ranBuild |-> FALSE, fileIdx |-> 0, text |-> <<>>, docIdx |-> 0,
   queryLen |-> 0, result |-> None, retrieval |-> "none", fault |-> "none",
   resp |-> <<>>,
   calls |-> NoCalls]

Init ==
  /\ vectorStore = <<>>
  /\ fs \in [FileNames -> FileStates]
  /\ fsChanges = 0
  /\ req = [r \in Requests |-> NewRequest]
  /\ alive = TRUE
  /\ fn = NoCall

(* res.send / res.status().json: the response is sent and the handler returns; *)
(* its locals are gone (retrieval keeps whether relevantChunks was empty)       *)
Respond(rq, response) ==
  [rq EXCEPT !.pc = "done", !.resp = Append(@, response),
             !.fileIdx = 0, !.text = <<>>, !.docIdx = 0, !.result = None]

Called(rq, collaborator) == [rq EXCEPT !.calls[collaborator] = @ + 1]

(* ---------------- loadKnowledgeBase (src/index.js 144-167) ---------------- *)
(* Only the awaits of collaborator calls (I/O) let the handler of another       *)
(* request run.  await splitter.createDocuments(...) and the await of a         *)
(* loadKnowledgeBase() that returns at once resume from the microtask queue,    *)
(* before node handles another I/O event: they are inside one action.           *)

(* await loadKnowledgeBase() resumes: findRelevantChunks runs up to its await *)
findRelevantChunksCall(rq) ==
  Called([rq EXCEPT !.pc = "searching", !.fileIdx = 0, !.text = <<>>, !.docIdx = 0], "embed")

(* mutant: no existsSync check, readFileSync of a missing file throws *)
RECURSIVE LoadFiles_NoExistsCheck(_, _)
LoadFiles_NoExistsCheck(rq, i) ==
  IF i > Len(KNOWLEDGE_FILES) THEN findRelevantChunksCall(rq)
  ELSE LET path == KNOWLEDGE_FILES[i]
       IN  IF fs[path] = None THEN Respond([rq EXCEPT !.fault = "readFile"], Failure)
           ELSE LET text == Trim(fs[path][1])
                IN  IF text = <<>> \/ createDocuments(text) = <<>>
                    THEN LoadFiles_NoExistsCheck(rq, i + 1)
                    ELSE Called([rq EXCEPT !.pc = "embedding", !.fileIdx = i,
                                           !.text = text, !.docIdx = 1], "embed")

(* the for loop over filePaths from position i on, up to its next embedQuery *)
RECURSIVE LoadFiles(_, _)
LoadFiles(rq, i) ==
  IF i > Len(KNOWLEDGE_FILES) THEN findRelevantChunksCall(rq)
  ELSE LET path == KNOWLEDGE_FILES[i]
       IN  IF fs[path] = None THEN LoadFiles(rq, i + 1)
           ELSE LET text == Trim(fs[path][1])
                IN  IF text = <<>> \/ createDocuments(text) = <<>>
                    THEN LoadFiles(rq, i + 1)
                    ELSE Called([rq EXCEPT !.pc = "embedding", !.fileIdx = i,
                                           !.text = text, !.docIdx = 1], "embed")

(* the for loop over docs at position i: the next embedQuery call, or the next file *)
LoadDocs(rq, i) ==
  IF i <= Len(createDocuments(rq.text))
  THEN Called([rq EXCEPT !.pc = "embedding", !.docIdx = i], "embed")
  ELSE LoadFiles(rq, rq.fileIdx + 1)

(* mutant: no "already built" guard *)
loadKnowledgeBase_NoGuard(rq) == LoadFiles([rq EXCEPT !.ranBuild = TRUE], 1)

(* the call of loadKnowledgeBase up to its first embedQuery, or through its return *)
loadKnowledgeBase(rq) ==
  IF Len(vectorStore) > 0
  THEN findRelevantChunksCall(rq)
  ELSE LoadFiles([rq EXCEPT !.ranBuild = TRUE], 1)

(* ---------------- Ask Route (src/index.js 191-256) ---------------- *)
(* mutant: only a missing member is refused *)
Falsy_UndefinedOnly(query) == query = None

(* !query: the member is missing (undefined) or the empty string *)
Falsy(query) == query = None \/ query[1] = <<>>

(* the request arrives: the handler runs up to the await of validateQuestion *)
Receive(r) ==
  /\ alive
  /\ req[r].pc = "idle"
  /\ \E body \in Bodies :
       LET rq == [req[r] EXCEPT !.query = body]
       IN  IF Falsy(body)
           THEN req' = [req EXCEPT ![r] = Respond(rq, MissingQuery)]
           ELSE req' = [req EXCEPT ![r] = Called([rq EXCEPT !.pc = "validating"], "validate")]
  /\ UNCHANGED <<fn, vectorStore, fs, fsChanges, alive>>

(* validationChain.call resolves *)
ValidateReturn(r) ==
  /\ alive
  /\ req[r].pc = "validating"
  /\ \E text \in ValidatorOutputs :
       LET rq == [req[r] EXCEPT !.vout = Some(text)]
       IN  IF ~validateQuestion(text)
           THEN req' = [req EXCEPT ![r] = Respond(rq, Clarification)]
           ELSE req' = [req EXCEPT ![r] = Called([rq EXCEPT !.pc = "classifying"], "classify")]
  /\ UNCHANGED <<fn, vectorStore, fs, fsChanges, alive>>

(* validationChain.call rejects: line 196 is outside the try block, so the   *)
(* handler's promise rejects.  Express 5 hands it to its error handler;      *)
(* Express 4 does not, and node 20 ends the process on the unhandled         *)
(* rejection.                                                                *)
ValidateFail(r) ==
  /\ alive
  /\ req[r].pc = "validating"
  /\ \/ /\ req' = [req EXCEPT ![r] = Respond([@ EXCEPT !.fault = "validate"], FrameworkError)]
        /\ UNCHANGED alive
     \/ /\ req' = [req EXCEPT ![r] = [@ EXCEPT !.pc = "rejected", !.fault = "validate"]]
        /\ alive' = FALSE
  /\ UNCHANGED <<fn, vectorStore, fs, fsChanges>>

(* roleChain.call resolves; loadKnowledgeBase() runs up to its next embedQuery *)
ClassifyReturn(r) ==
  /\ alive
  /\ req[r].pc = "classifying"
  /\ \E text \in ClassifierOutputs :
       req' = [req EXCEPT ![r] =
                 loadKnowledgeBase([@ EXCEPT !.cout = Some(text), !.role = classifyRole(text)])]
  /\ UNCHANGED <<fn, vectorStore, fs, fsChanges, alive>>

(* a rejected call inside the try block: catch (err) sends the 500 *)
Catch(rq, collaborator) == Respond([rq EXCEPT !.fault = collaborator], Failure)

ClassifyFail(r) ==
  /\ alive
  /\ req[r].pc = "classifying"
  /\ req' = [req EXCEPT ![r] = Catch(@, "classify")]
  /\ UNCHANGED <<fn, vectorStore, fs, fsChanges, alive>>

(* embeddings.embedQuery(doc.pageContent) resolves: the chunk is pushed *)
EmbedReturn(r) ==
  /\ alive
  /\ req[r].pc = "embedding"
  /\ LET pageContent == createDocuments(req[r].text)[req[r].docIdx]
     IN  vectorStore' = Append(vectorStore,
                               [embedding |-> embedQuery(pageContent),
                                text |-> pageContent,
                                fileName |-> KNOWLEDGE_FILES[req[r].fileIdx]])
  /\ req' = [req EXCEPT ![r] = LoadDocs(@, @.docIdx + 1)]
  /\ UNCHANGED <<fn, fs, fsChanges, alive>>

EmbedFail(r) ==
  /\ alive
  /\ req[r].pc = "embedding"
  /\ req' = [req EXCEPT ![r] = Catch(@, "embedBuild")]
  /\ UNCHANGED <<fn, vectorStore, fs, fsChanges, alive>>

(* embeddings.embedQuery(question) resolves: scoring, sorting, the gate, and *)
(* the handler up to res.send of the forwarding message or the await of fetch *)
SearchReturn(r) ==
  /\ alive
  /\ req[r].pc = "searching"
  /\ \E queryEmbedding \in QueryVectors :
       IF ScoringThrows(vectorStore, queryEmbedding)
       THEN /\ req' = [req EXCEPT ![r] =
                        Catch([@ EXCEPT !.queryLen = Len(queryEmbedding)], "cosineSimilarity")]
            /\ UNCHANGED vectorStore
       ELSE LET relevantChunks ==
                  findRelevantChunks(vectorStore, queryEmbedding, DefaultTopK, DefaultThreshold)
                rq == [req[r] EXCEPT !.queryLen = Len(queryEmbedding),
                                     !.result = Some(relevantChunks),
                                     !.retrieval = IF Len(relevantChunks) = 0
                                                   THEN "empty" ELSE "found"]
            IN  /\ vectorStore' = StoreAfterSearch(vectorStore, queryEmbedding)
                /\ IF Len(relevantChunks) = 0
                   THEN req' = [req EXCEPT ![r] = Respond(rq, Forward(rq.role))]
                   ELSE req' = [req EXCEPT ![r] = Called([rq EXCEPT !.pc = "chatting"], "chat")]
  /\ UNCHANGED <<fn, fs, fsChanges, alive>>

SearchFail(r) ==
  /\ alive
  /\ req[r].pc = "searching"
  /\ req' = [req EXCEPT ![r] = Catch(@, "embedSearch")]
  /\ UNCHANGED <<fn, vectorStore, fs, fsChanges, alive>>

(* fetch and response.json() resolve with a chat completion *)
ChatReturn(r) ==
  /\ alive
  /\ req[r].pc = "chatting"
  /\ \E content \in ChatContents \cup {<<>>} :
       req' = [req EXCEPT ![r] = Respond(@, Answer(content))]
  /\ UNCHANGED <<fn, vectorStore, fs, fsChanges, alive>>

(* the chat call fails.  fetch rejects (no connection) or response.json()  *)
(* rejects (no JSON body): caught.  The endpoint answers with an HTTP error *)
(* status and a JSON error body: fetch resolves, response.ok is not looked  *)
(* at, data.message is undefined and the placeholder is sent.               *)
ChatFail(r) ==
  /\ alive
  /\ req[r].pc = "chatting"
  /\ \/ req' = [req EXCEPT ![r] = Catch(@, "chat")]
     \/ req' = [req EXCEPT ![r] = Respond([@ EXCEPT !.fault = "chat"], Answer(<<>>))]
  /\ UNCHANGED <<fn, vectorStore, fs, fsChanges, alive>>

(* somebody edits, creates or removes a knowledge file *)
FsWrite ==
  /\ fsChanges < MaxFsChanges
  /\ \E path \in FileNames, state \in FileStates :
       /\ state # fs[path]
       /\ fs' = [fs EXCEPT ![path] = state]
  /\ fsChanges' = fsChanges + 1
  /\ UNCHANGED <<fn, vectorStore, req, alive>>

Next ==
  \/ \E r \in Requests :
       \/ Receive(r)
       \/ ValidateReturn(r)
       \/ ValidateFail(r)
       \/ ClassifyReturn(r)
       \/ ClassifyFail(r)
       \/ EmbedReturn(r)
       \/ EmbedFail(r)
       \/ SearchReturn(r)
       \/ SearchFail(r)
       \/ ChatReturn(r)
       \/ ChatFail(r)
  \/ FsWrite

Spec == Init /\ [][Next]_vars

(* ---------------- Queries handled one after another ---------------- *)
(* the handler of a request has ended: it responded, or its promise rejected *)
Ended(r) == req[r].pc \in {"done", "rejected"}

(* a request arrives only when no other request is being handled *)
SeqReceive(r) ==
  /\ \A o \in Requests \ {r} : req[o].pc = "idle" \/ Ended(o)
  /\ Receive(r)

SeqNext ==
  \/ \E r \in Requests :
       \/ SeqReceive(r)
       \/ ValidateReturn(r)
       \/ ValidateFail(r)
       \/ ClassifyReturn(r)
       \/ ClassifyFail(r)
       \/ EmbedReturn(r)
       \/ EmbedFail(r)
       \/ SearchReturn(r)
       \/ SearchFail(r)
       \/ ChatReturn(r)
       \/ ChatFail(r)
  \/ FsWrite

SeqSpec == Init /\ [][SeqNext]_vars

(* ---------------- A single call of findRelevantChunks ---------------- *)
(* findRelevantChunks called once on a store of up to MaxStore chunks, with   *)
(* a query vector, topK and threshold                                         *)
ChunkTexts == <<"p1", "p2", "p3", "p4", "p5">>

StoreOf(vecs) ==
  [i \in 1..Len(vecs) |->
     [embedding |-> vecs[i], text |-> ChunkTexts[i], fileName |-> KNOWLEDGE_FILES[1]]]

VectorSeqs == UNION {[1..n -> Vectors] : n \in 0..MaxStore}

Thresholds ==
  {DefaultThreshold, [num |-> 3, den |-> 5], [num |-> 1, den |-> 1], [num |-> 0, den |-> 1]}

FnCalls ==
  [op : {"findRelevantChunks"},
   queryEmbedding : Vectors, topK : 0..MaxTopK, threshold : Thresholds,
   returned : {FALSE}, threw : {FALSE}, value : {<<>>}]

FnInit ==
  /\ vectorStore \in {StoreOf(v) : v \in VectorSeqs}
  /\ fs = [path \in FileNames |-> None]
  /\ fsChanges = 0
  /\ req = [r \in Requests |-> NewRequest]
  /\ alive = TRUE
  /\ fn \in FnCalls

FnFindRelevantChunks ==
  /\ fn.op = "findRelevantChunks"
  /\ ~fn.returned
  /\ IF ScoringThrows(vectorStore, fn.queryEmbedding)
     THEN /\ fn' = [fn EXCEPT !.returned = TRUE, !.threw = TRUE]
          /\ UNCHANGED vectorStore
     ELSE /\ fn' = [fn EXCEPT !.returned = TRUE,
                              !.value = findRelevantChunks(vectorStore, fn.queryEmbedding,
                                                           fn.topK, fn.threshold)]
          /\ vectorStore' = StoreAfterSearch(vectorStore, fn.queryEmbedding)
  /\ UNCHANGED <<fs, fsChanges, req, alive>>

FnNext == FnFindRelevantChunks

FnSpec == FnInit /\ [][FnNext]_vars

(* ======================= Claims ======================= *)
Building(r) == req[r].pc = "embedding"

BuildInProgress == \E r \in Requests : Building(r)

(* C1: racing first queries run the build once; the index never holds the   *)
(* chunk of a source file more than once.                                   *)
C1_NoDuplicateChunks ==
  \A i, j \in 1..Len(vectorStore) :
    (vectorStore[i].fileName = vectorStore[j].fileName
       /\ vectorStore[i].text = vectorStore[j].text) => i = j

(* C2: findRelevantChunks is never evaluated by one request on an index that *)
(* holds the first chunks of a build of another request still in progress.   *)
C2_SearchWaitsForBuild ==
  [][\A r \in Requests :
       (req[r].pc = "searching" /\ req'[r].retrieval # req[r].retrieval)
         => ~(\E o \in Requests \ {r} : Building(o) /\ Len(vectorStore) > 0)]_vars

(* C3: a request whose handler has ended has been sent exactly one response. *)
C3_ExactlyOneResponse ==
  \A r \in Requests :
    req[r].pc \in {"done", "rejected"} => Len(req[r].resp) = 1

(* C4: when the validation output, trimmed and lowercased, is not exactly   *)
(* "valid", the request is answered with the clarification string, and it   *)
(* called no classifier, no embedding, no chat model and ran no build.      *)
C4_InvalidGetsClarification ==
  \A r \in Requests :
    (req[r].vout # None /\ ToLowerCase(Trim(req[r].vout[1])) # <<"valid">>)
      => /\ req[r].pc = "done"
         /\ req[r].resp =
              <<[status |-> 200,
                 body |-> <<"Could you provide more details about your question?">>]>>
         /\ req[r].calls = [validate |-> 1, classify |-> 0, embed |-> 0, chat |-> 0]
         /\ ~req[r].ranBuild

C4_Witness ==
  \E r \in Requests :
    /\ req[r].vout = Some(<<"valid", " ", "question">>)
    /\ req[r].pc = "done"
    /\ req[r].resp = <<Clarification>>

(* the role with every underscore replaced by a space *)
Spaced(role) == [i \in 1..Len(role) |-> IF role[i] = "_" THEN " " ELSE role[i]]

FiveRoles ==
  {<<"customer", "_", "support">>, <<"sales", "_", "agent">>, <<"marketing", "_", "agent">>,
   <<"technical", "_", "expert">>, <<"general", "_", "info">>}

(* C5: a valid query whose retrieval result is empty is answered with       *)
(* "will forward this to our " and the role with spaces for underscores,    *)
(* and no chat completion is called for it.                                 *)
C5_EmptyRetrievalForwards ==
  \A r \in Requests :
    req[r].retrieval = "empty"
      => /\ req[r].pc = "done"
         /\ req[r].role \in FiveRoles
         /\ req[r].resp =
              <<[status |-> 200,
                 body |-> <<"will forward this to our ">> \o Spaced(req[r].role)]>>
         /\ req[r].calls.chat = 0

C5_Witness ==
  \E r \in Requests :
    /\ req[r].retrieval = "empty"
    /\ req[r].role = sales_agent
    /\ req[r].resp =
         <<[status |-> 200, body |-> <<"will forward this to our ", "sales", " ", "agent">>]>>

(* C6: a search that returns gives an empty result when every score is      *)
(* strictly below threshold (also on an empty index), and min(topK, size of *)
(* the index) entries when some score is at or above threshold.             *)
AllBelow(store, queryEmbedding, threshold) ==
  \A i \in 1..Len(store) :
    ScoreLess(cosineSimilarity(queryEmbedding, store[i].embedding), threshold)

C6_GateAndSize ==
  (fn.op = "findRelevantChunks" /\ fn.returned /\ ~fn.threw)
    => IF AllBelow(vectorStore, fn.queryEmbedding, fn.threshold)
       THEN fn.value = <<>>
       ELSE Len(fn.value) = Min(fn.topK, Len(vectorStore))

(* the top score equals the threshold and topK cuts the result *)
C6_Witness ==
  /\ fn.op = "findRelevantChunks" /\ fn.returned /\ ~fn.threw
  /\ fn.value # <<>>
  /\ ScoreEq(fn.value[1].score, fn.threshold)
  /\ Len(fn.value) = fn.topK
  /\ fn.topK < Len(vectorStore)
  /\ \A i \in 1..Len(vectorStore) :
       ~ScoreLess(fn.threshold, cosineSimilarity(fn.queryEmbedding, vectorStore[i].embedding))

(* C7: the role of a request is the trimmed, lowercased classifier output   *)
(* when that is one of the five labels and general_info otherwise; the      *)
(* classifier's output never makes the request fail or stop.                *)
C7_RoleInClosedSet ==
  \A r \in Requests :
    req[r].cout # None
      => LET label == ToLowerCase(Trim(req[r].cout[1]))
         IN  /\ req[r].role \in FiveRoles
             /\ req[r].role = IF label \in FiveRoles THEN label
                              ELSE <<"general", "_", "info">>
             /\ req[r].fault # "classify"
             /\ req[r].calls.embed >= 1
             /\ req[r].pc \in {"embedding", "searching", "chatting", "done"}

C7_Witness ==
  \E r, o \in Requests :
    /\ req[r].cout = Some(<<"billing", "_", "agent">>)
    /\ req[r].role = general_info
    /\ req[r].pc = "done"
    /\ req[r].resp = <<Answer(<<"grounded answer">>)>>
    /\ req[o].cout = Some(<<" ", "Technical", "_", "Expert", " ", "\n">>)
    /\ req[o].role = technical_expert

(* C8: a request without a query, or with an empty one, is answered with    *)
(* the 400 and calls no collaborator and runs no build.                     *)
C8_MissingQuery ==
  \A r \in Requests :
    (req[r].pc # "idle" /\ (req[r].query = None \/ req[r].query = Some(<<>>)))
      => /\ req[r].pc = "done"
         /\ req[r].resp = <<[status |-> 400, body |-> <<"Missing query.">>]>>
         /\ req[r].calls = NoCalls
         /\ ~req[r].ranBuild

C8_Witness ==
  \E r \in Requests :
    /\ req[r].query = Some(<<>>)
    /\ req[r].resp = <<MissingQuery>>
    /\ Len(vectorStore) > 0

(* C9: once the index is non-empty and no build is in progress, no step     *)
(* changes it or starts a build, whatever happens to the source files.      *)
C9_ReadyIndexIsKept ==
  [][(Len(vectorStore) > 0 /\ ~BuildInProgress)
       => (vectorStore' = vectorStore /\ ~BuildInProgress')]_vars

(* a request went through loadKnowledgeBase on the ready index after its file was removed *)
C9_Witness ==
  /\ Len(vectorStore) > 0
  /\ ~BuildInProgress
  /\ fs[vectorStore[1].fileName] = None
  /\ \E r \in Requests :
       /\ ~req[r].ranBuild
       /\ req[r].retrieval # "none"
       /\ \E o \in Requests : req[o].ranBuild /\ req[o].pc = "done"

(* C10: a failed embedding or chat call of a request is answered with the   *)
(* 500, and the call is not made again for that request.                    *)
C10_FailureIs500 ==
  \A r \in Requests :
    req[r].fault \in {"embedBuild", "embedSearch", "chat"}
      => /\ req[r].pc = "done"
         /\ req[r].resp = <<[status |-> 500, body |-> <<"An error occurred.">>]>>
         /\ req[r].calls.chat <= 1

(* C11: when the query vector and some chunk of the index differ in length, *)
(* the search of the request throws: the request is answered with the 500,  *)
(* gets no retrieval result and no forwarding message, and calls no chat.   *)
C11_MismatchFails ==
  [][\A r \in Requests :
       (/\ req[r].pc = "searching"
        /\ req'[r].queryLen # 0
        /\ \E i \in 1..Len(vectorStore) :
             Len(vectorStore[i].embedding) # req'[r].queryLen)
         => /\ req'[r].pc = "done"
            /\ req'[r].resp = <<[status |-> 500, body |-> <<"An error occurred.">>]>>
            /\ req'[r].retrieval = "none"
            /\ req'[r].calls.chat = 0]_vars

C11_Witness ==
  \E r \in Requests :
    /\ req[r].queryLen = 1
    /\ Len(vectorStore) > 0
    /\ \A i \in 1..Len(vectorStore) : Len(vectorStore[i].embedding) = 2
    /\ req[r].fault = "cosineSimilarity"
    /\ req[r].resp = <<Failure>>

(* C12: the calls of a request come in the order validate, classify,        *)
(* embeddings of the build and of the search, chat; validate, classify and  *)
(* chat are called at most once; the chat call is made only for a valid     *)
(* query whose search returned a non-empty result with a top score of at    *)
(* least 0.3.                                                               *)
C12_OrderAndGate ==
  \A r \in Requests :
    LET rq == req[r]
        c == rq.calls
        valid == rq.vout # None /\ ToLowerCase(Trim(rq.vout[1])) = <<"valid">>
    IN  /\ c.validate <= 1 /\ c.classify <= 1 /\ c.chat <= 1
        /\ c.classify = 1 => (c.validate = 1 /\ valid)
        /\ c.embed >= 1 => (c.classify = 1 /\ rq.cout # None)
        /\ c.chat = 1 => (c.embed >= 1 /\ valid /\ rq.retrieval = "found")
        /\ rq.pc = "validating" => c = [validate |-> 1, classify |-> 0, embed |-> 0, chat |-> 0]
        /\ rq.pc = "classifying" => c = [validate |-> 1, classify |-> 1, embed |-> 0, chat |-> 0]
        /\ rq.pc \in {"embedding", "searching"} => (c.chat = 0 /\ rq.retrieval = "none")
        /\ rq.pc = "chatting"
             => /\ c.chat = 1
                /\ rq.result # None
                /\ rq.result[1] # <<>>
                /\ 10 * rq.result[1][1].score.num >= 3 * rq.result[1][1].score.den
                /\ \A k \in 1..Len(rq.result[1]) :
                     rq.result[1][k].score.num * rq.result[1][1].score.den
                       <= rq.result[1][1].score.num * rq.result[1][k].score.den

(* the chat model is called with a result whose second entry is below the gate *)
C12_Witness ==
  \E r \in Requests :
    /\ req[r].pc = "chatting"
    /\ req[r].ranBuild
    /\ req[r].calls = [validate |-> 1, classify |-> 1, embed |-> 3, chat |-> 1]
    /\ Len(req[r].result[1]) = 2
    /\ req[r].result[1][2].score.num = 0

(* C13: when the gate passes, the result is the first topK chunks of the      *)
(* index in the order of descending score, equal scores in insertion order,  *)
(* whatever the scores of the chunks after the first.                         *)
ScoreAt(i) == cosineSimilarity(fn.queryEmbedding, vectorStore[i].embedding)

(* chunk i comes before chunk j in the result order *)
Before(i, j) ==
  \/ ScoreAt(j).num * ScoreAt(i).den < ScoreAt(i).num * ScoreAt(j).den
  \/ (ScoreAt(j).num * ScoreAt(i).den = ScoreAt(i).num * ScoreAt(j).den /\ i < j)

(* the chunk with k - 1 chunks before it *)
Ranked(k) ==
  CHOOSE i \in 1..Len(vectorStore) :
    Cardinality({j \in 1..Len(vectorStore) : Before(j, i)}) = k - 1

C13_TopKStableOrder ==
  (/\ fn.op = "findRelevantChunks" /\ fn.returned /\ ~fn.threw
   /\ \E i \in 1..Len(vectorStore) :
        ScoreAt(i).num * fn.threshold.den >= fn.threshold.num * ScoreAt(i).den)
    => /\ Len(fn.value) = Min(fn.topK, Len(vectorStore))
       /\ \A k \in 1..Len(fn.value) :
            /\ fn.value[k].text = vectorStore[Ranked(k)].text
            /\ fn.value[k].fileName = vectorStore[Ranked(k)].fileName
            /\ fn.value[k].embedding = vectorStore[Ranked(k)].embedding
            /\ fn.value[k].score = ScoreAt(Ranked(k))

(* two chunks of equal score in insertion order, then a chunk below threshold *)
C13_Witness ==
  /\ fn.op = "findRelevantChunks" /\ fn.returned /\ ~fn.threw
  /\ Len(fn.value) = 3
  /\ fn.value[1].text = "p2" /\ fn.value[2].text = "p3" /\ fn.value[3].text = "p1"
  /\ ScoreEq(fn.value[1].score, fn.value[2].score)
  /\ ScoreLess(fn.value[3].score, fn.threshold)

(* C14: over queries handled one after another, the build (the loop that     *)
(* reads, chunks and embeds the source files) is run by at most one query,   *)
(* whatever the source files contain.                                         *)
C14_AtMostOneBuild ==
  fsChanges = 0 => Cardinality({r \in Requests : req[r].ranBuild}) <= 1

(* the source file exists and is not empty after trimming *)
Usable(path) == fs[path] # None /\ Trim(fs[path][1]) # <<>>

NoUsableSource == \A path \in FileNames : ~Usable(path)

ValidQuery(r) == req[r].vout # None /\ ToLowerCase(Trim(req[r].vout[1])) = <<"valid">>

(* C15 as stated: with every source missing or empty, every valid query ends *)
(* in the forwarding message, never in an error response.                    *)
C15_AlwaysForwards ==
  \A r \in Requests :
    (fsChanges = 0 /\ NoUsableSource /\ ValidQuery(r) /\ req[r].pc = "done")
      => req[r].resp = <<Forward(req[r].role)>>

(* C15, amended: missing and empty sources are skipped without an error and  *)
(* contribute no chunk; with every source missing or empty the index stays   *)
(* empty and a valid query whose classifier call and query-embedding call    *)
(* succeed ends in the forwarding message; when one of the two calls fails   *)
(* it ends in the 500 response.                                              *)
C15_SkippedSources ==
  fsChanges = 0
    => /\ \A i \in 1..Len(vectorStore) : Usable(vectorStore[i].fileName)
       /\ NoUsableSource
            => /\ vectorStore = <<>>
               /\ \A r \in Requests :
                    /\ req[r].pc \notin {"embedding", "chatting"}
                    /\ req[r].fault \in {"none", "validate", "classify", "embedSearch"}
                    /\ (ValidQuery(r) /\ req[r].pc = "done")
                         => IF req[r].cout # None /\ req[r].fault # "embedSearch"
                            THEN /\ req[r].ranBuild
                                 /\ req[r].fault = "none"
                                 /\ req[r].calls.chat = 0
                                 /\ req[r].resp =
                                      <<[status |-> 200,
                                         body |-> <<"will forward this to our ">>
                                                    \o Spaced(req[r].role)]>>
                            ELSE req[r].resp =
                                   <<[status |-> 500, body |-> <<"An error occurred.">>]>>

(* one source missing, the other only whitespace: the build was run and the *)
(* query was forwarded                                                      *)
C15_Witness ==
  /\ fsChanges = 0
  /\ fs["knowledge.txt"] = None
  /\ fs["faq.txt"] = Some(<<"\n">>)
  /\ vectorStore = <<>>
  /\ \E r \in Requests :
       /\ req[r].pc = "done"
       /\ req[r].ranBuild
       /\ req[r].resp = <<Forward(req[r].role)>>

(* C16: whenever the index is non-empty and no build is in progress it holds *)
(* the chunks of every source file that existed and was non-empty at build   *)
(* time (the files have not changed since).                                   *)
C16_ReadyIsComplete ==
  (Len(vectorStore) > 0 /\ ~BuildInProgress /\ fsChanges = 0)
    => \A path \in FileNames :
         Usable(path)
           => \A d \in 1..Len(createDocuments(Trim(fs[path][1]))) :
                \E i \in 1..Len(vectorStore) :
                  /\ vectorStore[i].fileName = path
                  /\ vectorStore[i].text = createDocuments(Trim(fs[path][1]))[d]

(* C17: a call of findRelevantChunks leaves the index as it was, the same    *)
(* chunks in the same insertion order, whether it returns chunks, returns an *)
(* empty result or throws.                                                   *)
C17_IndexUnchanged ==
  [][(~fn.returned /\ fn'.returned) => vectorStore' = vectorStore]_vars

(* a search has returned chunks in an order other than the insertion order *)
C17_Witness ==
  /\ fn.op = "findRelevantChunks" /\ fn.returned /\ ~fn.threw
  /\ Len(vectorStore) >= 2
  /\ ScoreLess(ScoreAt(1), ScoreAt(2))
  /\ Len(fn.value) >= 2
  /\ fn.value[1].text = vectorStore[2].text
  /\ vectorStore = StoreOf([i \in 1..Len(vectorStore) |-> vectorStore[i].embedding])

====
